---------------------------- MODULE Spec2Model ----------------------------
(***************************************************************************)
(* when_present (src/main.cpp): a single pass over a source file builds a  *)
(* forest of preprocessor conditionals (main, lines 181-294) and then, for *)
(* every requested line, process_line (lines 75-103) prints the chain of   *)
(* conditions that must be TRUE / FALSE for that line to be compiled.      *)
(*                                                                         *)
(* Text is modelled as a sequence of one-character strings, so that the    *)
(* directive detection of lines 200-231 is computed character by           *)
(* character.  Positions are 1-based; npos is 0.                           *)
(*                                                                         *)
(* Specifications: Spec (build pass and queries), SpecOnce (build pass and *)
(* one query), SpecRepeat (short files, repeated queries), SpecText (build *)
(* pass over a wider set of lines) and SpecArgs (the command line, lines   *)
(* 105-179).                                                               *)
(***************************************************************************)
EXTENDS Integers, Sequences, FiniteSets, TLC

(***************************************************************************)
(* Bounds of the model.                                                    *)
(***************************************************************************)
\* The input file holds at most MaxLine physical lines.
MaxLine == 6
\* At most MaxCont physical lines are merged into one logical line.
MaxCont == 2
\* At most MaxQueries line numbers are given after --lines.
MaxQueries == 1
\* The command line holds at most MaxArgs arguments after the program name.
MaxArgs == 4
\* Under SpecRepeat the file holds at most MaxRepeatLine physical lines and
\* at most MaxRepeat line numbers are given after --lines.
MaxRepeatLine == 3
MaxRepeat == 3
\* Under SpecText the file holds at most MaxTextLine physical lines.
MaxTextLine == 4

(***************************************************************************)
(* Sample physical lines the input file is made of.                        *)
(***************************************************************************)
LineIf        == <<"#", "i", "f", " ", "A">>
LineIfdefCont == <<" ", "#", " ", "i", "f", "d", "e", "f", " ", "B", " ", "\\">>
LineElif      == <<"#", "e", "l", "i", "f", " ", "C">>
LineElse      == <<"#", "e", "l", "s", "e">>
LineEndif     == <<"#", "e", "n", "d", "i", "f">>
LineCode      == <<"x", ";">>

PhysLines ==
    { LineIf, LineIfdefCont, LineElif, LineElse, LineEndif, LineCode }

\* Further physical lines, for the detection of directives (SpecText): the
\* empty line is a blank line of the file.
TextIfParen     == <<"#", "i", "f", "(", "X", ")">>
TextIfdefSpaced == <<"#", " ", " ", "i", "f", "d", "e", "f", " ", "X">>
TextUpperIf     == <<"#", "I", "F">>
TextElseif      == <<"#", "e", "l", "s", "e", "i", "f">>
TextIfdefX      == <<"#", "i", "f", "d", "e", "f", "X">>
TextHash        == <<"#">>
TextDefineCont  == <<"#", "d", "e", "f", "i", "n", "e", " ", "X", " ", "\\">>

TextLines ==
    { TextIfParen, TextIfdefSpaced, LineIfdefCont, LineElse, LineEndif,
      TextUpperIf, TextElseif, TextIfdefX, TextHash, TextDefineCont,
      LineCode, <<>> }

\* The line numbers that may be requested: every line of the file and one
\* line past its end.
TargetLines == 1 .. (MaxLine + 1)

(***************************************************************************)
(* Program state.                                                          *)
(***************************************************************************)
VARIABLES
    pc,                 \* "args" (loop 112-160), "build" (loop 185-288),
                        \* "query" (loop 296-301), "exited"
    cli,                \* argv and the locals of the argument loop (107-111)
    queried,            \* the elements of lines (line 108) the loop 296 has reached
    conditionals,       \* std::vector<conditional> conditionals (line 181)
    stateStack,         \* std::vector<conditional*> stateStack (line 182)
    currentLine,        \* std::string currentLine (line 184)
    currentLineNumber,  \* int currentLineNumber (line 185)
    streamGood,         \* stream.good() of the std::ifstream (line 174)
    physRead,           \* history: physical lines taken from the file so far
    opened,             \* history: if/ifdef/ifndef directives read so far
    ended,              \* history: endif directives read so far
    output,             \* what was written to standard output, in order
    returned            \* <<>> while main runs, <<status>> once it returned

vars == << pc, cli, queried, conditionals, stateStack, currentLine,
           currentLineNumber, streamGood, physRead, opened, ended, output,
           returned >>

(***************************************************************************)
(* Sequence helpers.                                                       *)
(***************************************************************************)
Last(s) == s[Len(s)]

Front(s) == SubSeq(s, 1, Len(s) - 1)

MinOf(S) == CHOOSE x \in S : \A y \in S : x <= y

(***************************************************************************)
(* Characters.                                                             *)
(***************************************************************************)
\* static constexpr const char whitespace[] = " \t\v" (line 73); the
\* vertical tab has no TLA+ escape and is written as the token "<VT>".
whitespace == { " ", "\t", "<VT>" }

\* Mutant of line 225: std::islower.
islower(c) ==
    c \in { "a", "b", "c", "d", "e", "f", "g", "h", "i", "j", "k", "l", "m",
            "n", "o", "p", "q", "r", "s", "t", "u", "v", "w", "x", "y", "z" }

\* std::isalpha in the "C" locale (line 225).
isalpha(c) ==
    c \in { "a", "b", "c", "d", "e", "f", "g", "h", "i", "j", "k", "l", "m",
            "n", "o", "p", "q", "r", "s", "t", "u", "v", "w", "x", "y", "z",
            "A", "B", "C", "D", "E", "F", "G", "H", "I", "J", "K", "L", "M",
            "N", "O", "P", "Q", "R", "S", "T", "U", "V", "W", "X", "Y", "Z" }

\* std::string::npos, with positions counted from 1.
npos == 0

\* currentLine.find_first_not_of(whitespace, from) (lines 201, 214).
find_first_not_of(s, from) ==
    LET hits == { i \in from .. Len(s) : s[i] \notin whitespace }
    IN  IF hits = {} THEN npos ELSE MinOf(hits)

\* The loop of lines 222-229: the first position at or after pos that holds
\* no alphabetic character (Len(s) + 1 when there is none).
DirectiveEnd(s, pos) ==
    LET stops == { i \in pos .. Len(s) : ~isalpha(s[i]) }
    IN  IF stops = {} THEN Len(s) + 1 ELSE MinOf(stops)

\* Lines 200-231: <<keyword>> for a logical line that reaches the dispatch
\* of line 232 (the keyword may be empty, as in "#1"), and <<>> for a line
\* the loop skips with continue (blank, not starting with '#', or nothing
\* after the '#').
Directive(s) ==
    LET pos == find_first_not_of(s, 1)
    IN  IF pos = npos THEN <<>>
        ELSE IF s[pos] # "#" THEN <<>>
        ELSE LET pos2 == find_first_not_of(s, pos + 1)
             IN  IF pos2 = npos THEN <<>>
                 ELSE << SubSeq(s, pos2, DirectiveEnd(s, pos2) - 1) >>

KwIf     == <<"i", "f">>
KwIfdef  == <<"i", "f", "d", "e", "f">>
KwIfndef == <<"i", "f", "n", "d", "e", "f">>
KwElse   == <<"e", "l", "s", "e">>
KwElif   == <<"e", "l", "i", "f">>
KwEndif  == <<"e", "n", "d", "i", "f">>

\* The comparisons of lines 232, 256 and 272: which branch of the dispatch a
\* logical line takes.
IsOpen(s)  == Directive(s) \in { <<KwIf>>, <<KwIfdef>>, <<KwIfndef>> }
\* Mutant of line 256: the keyword is compared by its first four characters.
IsElsePrefix(s) ==
    /\ Directive(s) # <<>>
    /\ Len(Directive(s)[1]) >= 4
    /\ SubSeq(Directive(s)[1], 1, 4) \in { KwElse, KwElif }
IsElse(s)  == Directive(s) \in { <<KwElse>>, <<KwElif>> }
IsEndif(s) == Directive(s) = <<KwEndif>>

(***************************************************************************)
(* The forest.  A conditional is [begin_line, end_line, blocks] (lines     *)
(* 47-53) and a block is [begin_line, end_line, condition,                 *)
(* nested_conditionals] (lines 64-71).  emplace_back() and make_unique()   *)
(* value-initialise the new object, so a line number that was not assigned *)
(* yet is 0.                                                               *)
(*                                                                         *)
(* A conditional* is modelled as the path to the object it points at:      *)
(* <<i>> is conditionals[i], and p \o <<b, n>> is element n of the         *)
(* nested_conditionals of block b of the conditional at p.                 *)
(***************************************************************************)
NewConditional == [ begin_line |-> 0, end_line |-> 0, blocks |-> <<>> ]

NewBlock ==
    [ begin_line |-> 0, end_line |-> 0, condition |-> <<>>,
      nested_conditionals |-> <<>> ]

RECURSIVE GetCond(_, _)
GetCond(conds, path) ==
    IF Len(path) = 1
    THEN conds[path[1]]
    ELSE GetCond(conds[path[1]].blocks[path[2]].nested_conditionals,
                 Tail(Tail(path)))

RECURSIVE SetCond(_, _, _)
SetCond(conds, path, c) ==
    IF Len(path) = 1
    THEN [conds EXCEPT ![path[1]] = c]
    ELSE [conds EXCEPT ![path[1]].blocks[path[2]].nested_conditionals =
                           SetCond(@, Tail(Tail(path)), c)]

\* Mutant of lines 244-246: the new conditional is nested in the first block
\* of the conditional on top of the stack instead of its last block.
PushConditionalFirstBlock(conds, stack) ==
    IF stack = <<>>
    THEN [ conds |-> Append(conds, NewConditional),
           stack |-> << <<Len(conds) + 1>> >> ]
    ELSE LET top    == Last(stack)
             parent == GetCond(conds, top)
             n      == Len(parent.blocks[1].nested_conditionals) + 1
             grown  == [parent EXCEPT !.blocks[1].nested_conditionals =
                                          Append(@, NewConditional)]
         IN  [ conds |-> SetCond(conds, top, grown),
               stack |-> Append(stack, top \o <<1, n>>) ]

\* Mutant of lines 235-247: the test of line 236 is missing, the new
\* conditional is always appended to the top-level vector.
PushConditionalTopLevel(conds, stack) ==
    [ conds |-> Append(conds, NewConditional),
      stack |-> Append(stack, <<Len(conds) + 1>>) ]

\* Lines 235-247: the new conditional is appended to the top-level vector
\* when the stack is empty, otherwise to the nested_conditionals of the last
\* block of the conditional on top of the stack; its address is pushed.
PushConditional(conds, stack) ==
    IF stack = <<>>
    THEN [ conds |-> Append(conds, NewConditional),
           stack |-> << <<Len(conds) + 1>> >> ]
    ELSE LET top    == Last(stack)
             parent == GetCond(conds, top)
             b      == Len(parent.blocks)
             n      == Len(parent.blocks[b].nested_conditionals) + 1
             grown  == [parent EXCEPT !.blocks[b].nested_conditionals =
                                          Append(@, NewConditional)]
         IN  [ conds |-> SetCond(conds, top, grown),
               stack |-> Append(stack, top \o <<b, n>>) ]

\* Lines 252-254 and 268-270: a new last block that begins at line ln and
\* carries the directive's text.
AddBlock(cond, ln, text) ==
    [cond EXCEPT !.blocks =
        Append(@, [NewBlock EXCEPT !.begin_line = ln, !.condition = text])]

\* Lines 232-255, the if / ifdef / ifndef branch.
OpenConditional(conds, stack, ln, text) ==
    LET pushed == PushConditional(conds, stack)
        path   == Last(pushed.stack)
        cond   == GetCond(pushed.conds, path)
        begun  == [cond EXCEPT !.begin_line = ln]
    IN  [ conds |-> SetCond(pushed.conds, path, AddBlock(begun, ln, text)),
          stack |-> pushed.stack ]

\* Mutant of lines 264-270: line 266 is missing, the previous block is not
\* given its end_line.
ElseBlockNoEnd(conds, stack, ln, text) ==
    LET path == Last(stack)
        cond == GetCond(conds, path)
    IN  [ conds |-> SetCond(conds, path, AddBlock(cond, ln, text)),
          stack |-> stack ]

\* Lines 264-270, the else / elif branch with a non-empty stack.
ElseBlock(conds, stack, ln, text) ==
    LET path   == Last(stack)
        cond   == GetCond(conds, path)
        closed == [cond EXCEPT !.blocks[Len(cond.blocks)].end_line = ln]
    IN  [ conds |-> SetCond(conds, path, AddBlock(closed, ln, text)),
          stack |-> stack ]

\* Mutants of lines 281-285: line 284 is missing (the last block is not
\* given its end_line); the end_line is taken one line late; line 285 is
\* missing (the stack is not popped).
EndConditionalNoBlockEnd(conds, stack, ln) ==
    LET path == Last(stack)
        cond == GetCond(conds, path)
    IN  [ conds |-> SetCond(conds, path, [cond EXCEPT !.end_line = ln]),
          stack |-> Front(stack) ]

EndConditionalLate(conds, stack, ln) ==
    LET path == Last(stack)
        cond == GetCond(conds, path)
        done == [cond EXCEPT !.end_line = ln + 1,
                             !.blocks[Len(cond.blocks)].end_line = ln + 1]
    IN  [ conds |-> SetCond(conds, path, done),
          stack |-> Front(stack) ]

\* Mutant of lines 281-285: line 283 is missing, the conditional is not
\* given its end_line.
EndConditionalNoCondEnd(conds, stack, ln) ==
    LET path == Last(stack)
        cond == GetCond(conds, path)
        done == [cond EXCEPT !.blocks[Len(cond.blocks)].end_line = ln]
    IN  [ conds |-> SetCond(conds, path, done),
          stack |-> Front(stack) ]

EndConditionalNoPop(conds, stack, ln) ==
    LET path == Last(stack)
        cond == GetCond(conds, path)
        done == [cond EXCEPT !.end_line = ln,
                             !.blocks[Len(cond.blocks)].end_line = ln]
    IN  [ conds |-> SetCond(conds, path, done),
          stack |-> stack ]

\* Lines 281-285, the endif branch with a non-empty stack.
EndConditional(conds, stack, ln) ==
    LET path == Last(stack)
        cond == GetCond(conds, path)
        done == [cond EXCEPT !.end_line = ln,
                             !.blocks[Len(cond.blocks)].end_line = ln]
    IN  [ conds |-> SetCond(conds, path, done),
          stack |-> Front(stack) ]

(***************************************************************************)
(* process_line (lines 75-103).  The printed lines are returned, in order. *)
(***************************************************************************)
RequiresTrue(block) ==
    [ kind |-> "TRUE", line |-> block.begin_line, condition |-> block.condition ]

RequiresFalse(block) ==
    [ kind |-> "FALSE", line |-> block.begin_line, condition |-> block.condition ]

\* Mutants of the test of line 79: the end_line is excluded, or is not tested.
InConditionalExclusive(cond, line) ==
    cond.begin_line <= line /\ cond.end_line > line

InConditionalOpenEnded(cond, line) == cond.begin_line <= line

\* Line 79: the conditional's closed range holds the line.
InConditional(cond, line) == cond.begin_line <= line /\ cond.end_line >= line

\* Mutant of the test of line 84: the end_line is included.
InBlockInclusive(block, line) ==
    block.begin_line <= line /\ block.end_line >= line

\* Line 84: the block's half-open range holds the line.
InBlock(block, line) == block.begin_line <= line /\ block.end_line > line

RECURSIVE process_line(_, _)
RECURSIVE ScanBlocks(_, _, _)
RECURSIVE ScanBlocksNoBreak(_, _, _)

\* Mutant of lines 82-97: the break of line 90 is missing, the blocks after
\* the one that holds the line are scanned too.
ScanBlocksNoBreak(line, blocks, k) ==
    IF k > Len(blocks) THEN <<>>
    ELSE IF InBlock(blocks[k], line)
         THEN <<RequiresTrue(blocks[k])>>
                  \o process_line(line, blocks[k].nested_conditionals)
                  \o ScanBlocksNoBreak(line, blocks, k + 1)
         ELSE <<RequiresFalse(blocks[k])>>
                  \o ScanBlocksNoBreak(line, blocks, k + 1)

\* The loop of lines 82-97 from block k on.
ScanBlocks(line, blocks, k) ==
    IF k > Len(blocks) THEN <<>>
    ELSE IF InBlock(blocks[k], line)
         THEN <<RequiresTrue(blocks[k])>>
                  \o process_line(line, blocks[k].nested_conditionals)
         ELSE <<RequiresFalse(blocks[k])>> \o ScanBlocks(line, blocks, k + 1)

\* The loop of lines 77-102: the first conditional that holds the line is
\* scanned, and the break of line 100 ends the loop.
process_line(line, conds) ==
    LET hits == { i \in 1 .. Len(conds) : InConditional(conds[i], line) }
    IN  IF hits = {} THEN <<>>
        ELSE ScanBlocks(line, conds[MinOf(hits)].blocks, 1)

(***************************************************************************)
(* Reading a logical line (lines 187-198).                                 *)
(***************************************************************************)
\* The text the loop of lines 190-198 builds from the results of its
\* getline calls: the lines joined by '\n'.
RECURSIVE Merged(_)
Merged(phys) ==
    IF Len(phys) = 1 THEN phys[1]
    ELSE Merged(Front(phys)) \o <<"\n">> \o Last(phys)

\* Line 191 without the stream.good() test: the text asks for a continuation.
Continues(text) == text # <<>> /\ Last(text) = "\\"

\* phys are the results of the getline calls of one iteration, and eof says
\* that the last of them reached the end of the file (the stream is no longer
\* good).  The loop of line 191 goes on after every call but the last, and
\* stops after the last.
OneIteration(phys, eof) ==
    /\ \A i \in 1 .. Len(phys) - 1 : Continues(Merged(SubSeq(phys, 1, i)))
    /\ eof \/ ~Continues(Merged(phys))

\* The physical lines an iteration takes from the file: a getline that finds
\* the file exhausted returns an empty line that is no line of the file.
Consumed(phys, eof) ==
    IF eof /\ Last(phys) = <<>> THEN Len(phys) - 1 ELSE Len(phys)

\* Every result of the getline calls of one iteration, over the sample
\* lines; a getline that finds the file exhausted returns the empty line.
Chunks ==
    UNION { [1 .. n -> PhysLines \cup {<<>>}] : n \in 1 .. MaxCont }

LogicalLines ==
    { c \in [phys : Chunks, eof : BOOLEAN] :
        /\ OneIteration(c.phys, c.eof)
        /\ \A i \in 1 .. Len(c.phys) : c.phys[i] = <<>> => (c.eof /\ i = Len(c.phys)) }

\* The logical lines by the branch of the dispatch (lines 232-287) they take.
OpenLines  == { c \in LogicalLines : IsOpen(Merged(c.phys)) }
ElseLines  == { c \in LogicalLines : IsElse(Merged(c.phys)) }
EndifLines == { c \in LogicalLines : IsEndif(Merged(c.phys)) }
OtherLines == LogicalLines \ (OpenLines \cup ElseLines \cup EndifLines)

\* The file holds at most MaxLine physical lines.
Readable(c) == physRead + Consumed(c.phys, c.eof) <= MaxLine

(***************************************************************************)
(* What the program prints.                                                *)
(***************************************************************************)
\* Line 298.
Header(line) == [ kind |-> "HEADER", line |-> line ]

\* Line 300.
Blank == [ kind |-> "BLANK" ]

\* Mutant of line 260: the message of line 277 is printed for an else.
UnmatchedElseAsEndif ==
    [ kind |-> "ERROR",
      text |-> "Encountered '#endif' with no matching conditional" ]

\* Lines 260, 277 and 292.
UnmatchedElse ==
    [ kind |-> "ERROR", text |-> "Encountered else outside of a conditional" ]

UnmatchedEndif ==
    [ kind |-> "ERROR",
      text |-> "Encountered '#endif' with no matching conditional" ]

UnterminatedConditional ==
    [ kind |-> "ERROR",
      text |-> "Reached end of file with an active conditional block" ]

\* return -1 (lines 261, 278, 293).
StructuralError(message) ==
    /\ pc' = "exited"
    /\ returned' = << -1 >>
    /\ output' = Append(output, message)

(***************************************************************************)
(* The command line (lines 105-179).  An argument is a sequence of         *)
(* characters, as a line is.  cli holds argv (without the program name),   *)
(* begin (the position of the iterator of line 110; Len(argv) + 1 is end), *)
(* filePath and lines (lines 107-108), and stream: "none" until the        *)
(* std::ifstream of line 174 is constructed, then "open" or "fail".        *)
(***************************************************************************)
ArgFile  == <<"-", "-", "f", "i", "l", "e">>
ArgLines == <<"-", "-", "l", "i", "n", "e", "s">>
ArgHelp  == <<"-", "-", "h", "e", "l", "p">>
ArgPath  == <<"f">>
ArgTwo   == <<"2">>
ArgZero  == <<"0">>

Args == { ArgFile, ArgLines, ArgHelp, ArgPath, ArgTwo, ArgZero }

CommandLines == UNION { [1 .. n -> Args] : n \in 0 .. MaxArgs }

\* std::atoi (line 135): white space, an optional sign, then the decimal
\* digits; 0 when there are none.
isspace(c) == c \in {" ", "\t", "\n", "<VT>", "\f", "\r"}

isdigit(c) == c \in {"0", "1", "2", "3", "4", "5", "6", "7", "8", "9"}

DigitValue(c) ==
    CHOOSE n \in 0 .. 9 :
        <<"0", "1", "2", "3", "4", "5", "6", "7", "8", "9">>[n + 1] = c

RECURSIVE SkipSpace(_, _)
SkipSpace(s, i) ==
    IF i <= Len(s) /\ isspace(s[i]) THEN SkipSpace(s, i + 1) ELSE i

RECURSIVE Digits(_, _, _)
Digits(s, i, acc) ==
    IF i <= Len(s) /\ isdigit(s[i])
    THEN Digits(s, i + 1, 10 * acc + DigitValue(s[i]))
    ELSE acc

atoi(s) ==
    LET i == SkipSpace(s, 1)
    IN  IF i <= Len(s) /\ s[i] = "-" THEN 0 - Digits(s, i + 1, 0)
        ELSE IF i <= Len(s) /\ s[i] = "+" THEN Digits(s, i + 1, 0)
        ELSE Digits(s, i, 0)

\* print_usage (lines 12-34).
Usage == [ kind |-> "USAGE" ]

\* Lines 119, 126, 138, 157, 164, 169 and 177.
PathTwice == [ kind |-> "ERROR", text |-> "Path specified more than once" ]

MissingPath == [ kind |-> "ERROR", text |-> "Missing path" ]

InvalidLine(arg) ==
    [ kind |-> "ERROR", text |-> "Invalid line number", arg |-> arg ]

Unrecognized(arg) ==
    [ kind |-> "ERROR", text |-> "Unrecognized argument", arg |-> arg ]

MustSpecifyPath == [ kind |-> "ERROR", text |-> "Must specify file path" ]

MustSpecifyLines ==
    [ kind |-> "ERROR", text |-> "Must specify line number(s)" ]

FailedToOpen(path) ==
    [ kind |-> "ERROR", text |-> "Failed to open file", arg |-> path ]

\* return print_usage(), 1 after the message (lines 119-120 and the like).
ArgumentError(message) ==
    /\ pc' = "exited"
    /\ returned' = << 1 >>
    /\ output' = output \o << message, Usage >>

\* The locals of the argument loop once it is over and the file is open.
\* Under Spec the command line is left out: argv is not followed, and the
\* elements of lines are drawn when the loop of line 296 reaches them.
Parsed ==
    [ argv |-> <<>>, begin |-> 1, filePath |-> ArgPath, lines |-> <<>>,
      stream |-> "open" ]

(***************************************************************************)
(* Initial state: the arguments were parsed (lines 110-171), the file was  *)
(* opened (lines 174-179) and the locals of lines 181-185 are constructed. *)
(* The build pass never reads lines, so the model draws each of its        *)
(* elements when the loop of line 296 reaches it, and records it in        *)
(* queried.                                                                *)
(***************************************************************************)
Init ==
    /\ pc = "build"
    /\ cli = Parsed
    /\ physRead = 0
    /\ queried = <<>>
    /\ conditionals = <<>>
    /\ stateStack = <<>>
    /\ currentLine = <<>>
    /\ currentLineNumber = 1
    /\ streamGood = TRUE
    /\ opened = 0
    /\ ended = 0
    /\ output = <<>>
    /\ returned = <<>>

(***************************************************************************)
(* One iteration of the loop of lines 185-288, by the branch it takes.     *)
(***************************************************************************)
\* Lines 187-198: the logical line is read.
GetLine(c) ==
    /\ pc = "build"
    /\ streamGood
    /\ currentLine' = Merged(c.phys)
    /\ streamGood' = ~c.eof
    /\ physRead' = physRead + Consumed(c.phys, c.eof)

\* Mutant of line 185: the counter advances by one, whatever linesRead is.
NextIterationByOne(c) ==
    /\ currentLineNumber' = currentLineNumber + 1
    /\ UNCHANGED << pc, output, returned >>

\* The increment of line 185; linesRead counts the getline calls.
NextIteration(c) ==
    /\ currentLineNumber' = currentLineNumber + Len(c.phys)
    /\ UNCHANGED << pc, output, returned >>

\* Lines 232-255.
IfBranch(c) ==
    /\ GetLine(c)
    /\ LET r == OpenConditional(conditionals, stateStack,
                                currentLineNumber, Merged(c.phys))
       IN  /\ conditionals' = r.conds
           /\ stateStack' = r.stack
    /\ opened' = opened + 1
    /\ NextIteration(c)
    /\ UNCHANGED << cli, queried, ended >>

\* Lines 256-271.
ElseBranch(c) ==
    /\ GetLine(c)
    /\ IF stateStack = <<>>
       THEN /\ StructuralError(UnmatchedElse)
            /\ UNCHANGED << conditionals, stateStack, currentLineNumber >>
       ELSE /\ LET r == ElseBlock(conditionals, stateStack,
                                  currentLineNumber, Merged(c.phys))
               IN  /\ conditionals' = r.conds
                   /\ stateStack' = r.stack
            /\ NextIteration(c)
    /\ UNCHANGED << cli, queried, opened, ended >>

\* Lines 272-286.
EndifBranch(c) ==
    /\ GetLine(c)
    /\ IF stateStack = <<>>
       THEN /\ StructuralError(UnmatchedEndif)
            /\ UNCHANGED << conditionals, stateStack, currentLineNumber >>
       ELSE /\ LET r == EndConditional(conditionals, stateStack,
                                       currentLineNumber)
               IN  /\ conditionals' = r.conds
                   /\ stateStack' = r.stack
            /\ NextIteration(c)
    /\ ended' = ended + 1
    /\ UNCHANGED << cli, queried, opened >>

\* The continue of lines 204, 210 and 218, and the fall-through of line 287.
OtherBranch(c) ==
    /\ GetLine(c)
    /\ NextIteration(c)
    /\ UNCHANGED << cli, queried, conditionals, stateStack, opened, ended >>

\* The dispatch of lines 232, 256 and 272 on the keyword of the logical line.
Iteration(c) ==
    LET text == Merged(c.phys)
    IN  IF IsOpen(text) THEN IfBranch(c)
        ELSE IF IsElse(text) THEN ElseBranch(c)
        ELSE IF IsEndif(text) THEN EndifBranch(c)
        ELSE OtherBranch(c)

\* The iterations over the sample lines, by the branch they take.
ReadIf == \E c \in OpenLines : Readable(c) /\ IfBranch(c)

ReadElse == \E c \in ElseLines : Readable(c) /\ ElseBranch(c)

ReadEndif == \E c \in EndifLines : Readable(c) /\ EndifBranch(c)

ReadOther == \E c \in OtherLines : Readable(c) /\ OtherBranch(c)

\* Mutant of lines 290-294: the test of the stack is missing.
EndOfFileUnchecked ==
    /\ pc = "build"
    /\ ~streamGood
    /\ pc' = "query"
    /\ UNCHANGED << cli, queried, conditionals, stateStack, currentLine,
                    currentLineNumber, streamGood, physRead, opened, ended,
                    output, returned >>

\* Lines 290-294: the loop ended because the stream is no longer good.
EndOfFile ==
    /\ pc = "build"
    /\ ~streamGood
    /\ IF stateStack # <<>>
       THEN StructuralError(UnterminatedConditional)
       ELSE /\ pc' = "query"
            /\ UNCHANGED << output, returned >>
    /\ UNCHANGED << cli, queried, conditionals, stateStack, currentLine,
                    currentLineNumber, streamGood, physRead, opened, ended >>

\* One iteration of the loop of lines 296-301 for the next element of lines,
\* which is the last one or not; after the last one main ends and the
\* program exits with status 0.
\* Mutant of lines 296-301: the forest is moved from by the call of line 299.
QueryMoved(line, last) ==
    /\ pc = "query"
    /\ queried' = Append(queried, line)
    /\ output' = output \o <<Header(line)>>
                        \o process_line(line, conditionals)
                        \o <<Blank>>
    /\ conditionals' = <<>>
    /\ IF last
       THEN /\ pc' = "exited"
            /\ returned' = << 0 >>
       ELSE UNCHANGED << pc, returned >>
    /\ UNCHANGED << cli, stateStack, currentLine, currentLineNumber,
                    streamGood, physRead, opened, ended >>

Query(line, last) ==
    /\ pc = "query"
    /\ queried' = Append(queried, line)
    /\ output' = output \o <<Header(line)>>
                        \o process_line(line, conditionals)
                        \o <<Blank>>
    /\ IF last
       THEN /\ pc' = "exited"
            /\ returned' = << 0 >>
       ELSE UNCHANGED << pc, returned >>
    /\ UNCHANGED << cli, conditionals, stateStack, currentLine,
                    currentLineNumber, streamGood, physRead, opened, ended >>

\* The queries of at most MaxQueries lines of the file.
QueryLine ==
    \E line \in TargetLines, last \in BOOLEAN :
        /\ pc = "query"
        /\ Len(queried) < MaxQueries
        /\ Len(queried) + 1 = MaxQueries => last
        /\ Query(line, last)

Next ==
    \/ ReadIf
    \/ ReadElse
    \/ ReadEndif
    \/ ReadOther
    \/ EndOfFile
    \/ QueryLine

Spec == Init /\ [][Next]_vars

(***************************************************************************)
(* The program run with one line number after --lines: the build pass of   *)
(* Spec, and the loop of lines 296-301 with its single iteration.          *)
(***************************************************************************)
QueryOnce == \E line \in TargetLines : Query(line, TRUE)

NextOnce ==
    \/ ReadIf
    \/ ReadElse
    \/ ReadEndif
    \/ ReadOther
    \/ EndOfFile
    \/ QueryOnce

SpecOnce == Init /\ [][NextOnce]_vars

(***************************************************************************)
(* The argument loop of lines 110-160, the tests of lines 162-171 and the  *)
(* opening of the file (lines 174-179), over every command line of at most *)
(* MaxArgs arguments.                                                      *)
(***************************************************************************)
buildVars == << queried, conditionals, stateStack, currentLine,
                currentLineNumber, streamGood, physRead, opened, ended >>

InitArgs ==
    /\ pc = "args"
    /\ cli \in { [ argv |-> a, begin |-> 1, filePath |-> <<>>, lines |-> <<>>,
                   stream |-> "none" ] : a \in CommandLines }
    /\ physRead = 0
    /\ queried = <<>>
    /\ conditionals = <<>>
    /\ stateStack = <<>>
    /\ currentLine = <<>>
    /\ currentLineNumber = 1
    /\ streamGood = TRUE
    /\ opened = 0
    /\ ended = 0
    /\ output = <<>>
    /\ returned = <<>>

\* Line 112-113: the loop is at an argument, which is arg.
AtArgument(arg) ==
    /\ pc = "args"
    /\ cli.begin <= Len(cli.argv)
    /\ cli.argv[cli.begin] = arg

\* Lines 114-129.
FileArgument ==
    /\ AtArgument(ArgFile)
    /\ IF cli.filePath # <<>>
       THEN /\ ArgumentError(PathTwice)
            /\ UNCHANGED cli
       ELSE IF cli.begin + 1 > Len(cli.argv)
       THEN /\ ArgumentError(MissingPath)
            /\ cli' = [cli EXCEPT !.begin = @ + 1]
       ELSE /\ cli' = [cli EXCEPT !.filePath = cli.argv[cli.begin + 1],
                                  !.begin = @ + 2]
            /\ UNCHANGED << pc, output, returned >>
    /\ UNCHANGED buildVars

\* The position at which the loop of line 133 stops when no line number is
\* invalid: the end, or the first argument from position i that begins
\* with '-'.
RECURSIVE LinesEnd(_, _)
LinesEnd(argv, i) ==
    IF i > Len(argv) \/ (argv[i] # <<>> /\ argv[i][1] = "-")
    THEN i
    ELSE LinesEnd(argv, i + 1)

\* Lines 130-150.
LinesArgument ==
    /\ AtArgument(ArgLines)
    /\ LET stop == LinesEnd(cli.argv, cli.begin + 1)
           bad  == { k \in (cli.begin + 1) .. (stop - 1) :
                       atoi(cli.argv[k]) <= 0 }
           upto == IF bad = {} THEN stop ELSE MinOf(bad)
           read == [ k \in 1 .. (upto - cli.begin - 1) |->
                       atoi(cli.argv[cli.begin + k]) ]
       IN  /\ cli' = [cli EXCEPT !.lines = @ \o read, !.begin = upto]
           /\ IF bad # {}
              THEN ArgumentError(InvalidLine(cli.argv[upto]))
              ELSE UNCHANGED << pc, output, returned >>
    /\ UNCHANGED buildVars

\* Mutant of line 153: return print_usage(), 1.
HelpArgumentFails ==
    /\ AtArgument(ArgHelp)
    /\ pc' = "exited"
    /\ returned' = << 1 >>
    /\ output' = Append(output, Usage)
    /\ UNCHANGED cli
    /\ UNCHANGED buildVars

\* Lines 151-154.
HelpArgument ==
    /\ AtArgument(ArgHelp)
    /\ pc' = "exited"
    /\ returned' = << 0 >>
    /\ output' = Append(output, Usage)
    /\ UNCHANGED cli
    /\ UNCHANGED buildVars

\* Lines 155-159.
UnrecognizedArgument ==
    \E arg \in Args \ { ArgFile, ArgLines, ArgHelp } :
        /\ AtArgument(arg)
        /\ ArgumentError(Unrecognized(arg))
        /\ UNCHANGED cli
        /\ UNCHANGED buildVars

\* Lines 162-179: the loop is over; the file is opened, which fails or not.
OpenStream ==
    /\ pc = "args"
    /\ cli.begin > Len(cli.argv)
    /\ IF cli.filePath = <<>>
       THEN /\ ArgumentError(MustSpecifyPath)
            /\ UNCHANGED cli
       ELSE IF cli.lines = <<>>
       THEN /\ ArgumentError(MustSpecifyLines)
            /\ UNCHANGED cli
       ELSE \E fail \in BOOLEAN :
                IF fail
                THEN /\ cli' = [cli EXCEPT !.stream = "fail"]
                     /\ pc' = "exited"
                     /\ returned' = << 1 >>
                     /\ output' = Append(output, FailedToOpen(cli.filePath))
                ELSE /\ cli' = [cli EXCEPT !.stream = "open"]
                     /\ pc' = "build"
                     /\ UNCHANGED << output, returned >>
    /\ UNCHANGED buildVars

NextArgs ==
    \/ FileArgument
    \/ LinesArgument
    \/ HelpArgument
    \/ UnrecognizedArgument
    \/ OpenStream

SpecArgs == InitArgs /\ [][NextArgs]_vars

(***************************************************************************)
(* The program over a shorter file and a longer list of lines: up to       *)
(* MaxRepeat queries of the forest of a file of up to MaxRepeatLine lines. *)
(***************************************************************************)
RepeatTargets == 1 .. (MaxRepeatLine + 1)

\* One iteration of the loop of lines 185-288.
RepeatRead ==
    \E c \in LogicalLines :
        /\ physRead + Consumed(c.phys, c.eof) <= MaxRepeatLine
        /\ Iteration(c)

\* One iteration of the loop of lines 296-301.
RepeatQuery ==
    \E line \in RepeatTargets, last \in BOOLEAN :
        /\ pc = "query"
        /\ Len(queried) < MaxRepeat
        /\ Len(queried) + 1 = MaxRepeat => last
        /\ Query(line, last)

NextRepeat ==
    \/ RepeatRead
    \/ EndOfFile
    \/ RepeatQuery

SpecRepeat == Init /\ [][NextRepeat]_vars

(***************************************************************************)
(* The build pass over files of up to MaxTextLine lines drawn from         *)
(* TextLines.                                                              *)
(***************************************************************************)
TextChunks == UNION { [1 .. n -> TextLines] : n \in 1 .. MaxCont }

TextLogicalLines ==
    { c \in [phys : TextChunks, eof : BOOLEAN] : OneIteration(c.phys, c.eof) }

\* One iteration of the loop of lines 185-288.
TextRead ==
    \E c \in TextLogicalLines :
        /\ physRead + Consumed(c.phys, c.eof) <= MaxTextLine
        /\ Iteration(c)

NextText ==
    \/ TextRead
    \/ EndOfFile

SpecText == Init /\ [][NextText]_vars

(***************************************************************************)
(* Vocabulary of the properties.                                           *)
(***************************************************************************)
MaxOf(S) == CHOOSE x \in S : \A y \in S : x >= y

\* Every conditional of a forest, at any depth.
RECURSIVE AllConds(_)
AllConds(conds) ==
    UNION { {conds[i]} \cup
            UNION { AllConds(conds[i].blocks[b].nested_conditionals) :
                        b \in 1 .. Len(conds[i].blocks) } :
            i \in 1 .. Len(conds) }

\* Every block of the forest, at any depth.
AllBlocks ==
    UNION { { c.blocks[b] : b \in 1 .. Len(c.blocks) } :
                c \in AllConds(conditionals) }

\* Every sequence of sibling conditionals: the top level, and the nested
\* conditionals of each block.
SiblingLists ==
    { conditionals } \cup { blk.nested_conditionals : blk \in AllBlocks }

\* The build pass ended without a structural error.
BuildSucceeded == pc = "query" \/ returned = << 0 >>

\* A query has run; TargetLine is the line it was asked about and Trace is
\* what it printed between its header and its blank line.
Queried == queried # <<>>

TargetLine == Last(queried)

Trace ==
    LET h == MaxOf({ i \in 1 .. Len(output) : output[i].kind = "HEADER" })
    IN  SubSeq(output, h + 1, Len(output) - 1)

\* The positions of a trace at which a block is reported with a kind.  A
\* block is identified by its begin_line: no two directives share a line.
Emitted(trace, kind, blk) ==
    { i \in 1 .. Len(trace) :
        trace[i].kind = kind /\ trace[i].line = blk.begin_line }

\* The indices of the blocks of a conditional reported with a kind.
BlocksEmitted(trace, kind, c) ==
    { k \in 1 .. Len(c.blocks) : Emitted(trace, kind, c.blocks[k]) # {} }

(***************************************************************************)
(* Properties of the query.                                                *)
(***************************************************************************)
\* C1 (mutual exclusivity): after a query for line L on a built forest, in
\* every conditional whose closed range [begin_line, end_line] holds L at
\* most one block is reported TRUE: exactly one when L < end_line, none when
\* L = end_line.  Every block before the TRUE one is reported FALSE, and no
\* block after it is reported at all.
C1_MutualExclusivity ==
    (BuildSucceeded /\ Queried) =>
        LET trace == Trace
        IN  \A c \in AllConds(conditionals) :
            (c.begin_line <= TargetLine /\ TargetLine <= c.end_line) =>
                LET true  == BlocksEmitted(trace, "TRUE", c)
                    false == BlocksEmitted(trace, "FALSE", c)
                IN  /\ Cardinality(true) <= 1
                    /\ TargetLine < c.end_line => Cardinality(true) = 1
                    /\ TargetLine = c.end_line => true = {}
                    /\ \A t \in true :
                        /\ \A k \in 1 .. t - 1 : k \in false /\ k \notin true
                        /\ t \notin false
                        /\ \A k \in t + 1 .. Len(c.blocks) :
                               k \notin false /\ k \notin true

\* A query inside the second of three blocks: the first block is reported
\* FALSE, the second TRUE, the third not at all.
C1_Witness ==
    /\ BuildSucceeded /\ Queried
    /\ \E c \in AllConds(conditionals) :
        /\ Len(c.blocks) = 3
        /\ c.blocks[2].begin_line <= TargetLine
        /\ TargetLine < c.blocks[2].end_line
        /\ BlocksEmitted(Trace, "FALSE", c) = {1}
        /\ BlocksEmitted(Trace, "TRUE", c) = {2}

\* C2 (terminating boundary): after a query for the end_line of a
\* conditional, the trace ends with every block of that conditional reported
\* FALSE, in block order; none of its blocks is reported TRUE and no block of
\* a conditional nested in it is reported.
C2_TerminatingBoundary ==
    (BuildSucceeded /\ Queried) =>
        \A c \in AllConds(conditionals) :
            TargetLine = c.end_line =>
                LET trace == Trace
                    n == Len(c.blocks)
                    t == Len(trace)
                IN  /\ t >= n
                    /\ \A k \in 1 .. n :
                        trace[t - n + k] =
                            [ kind |-> "FALSE",
                              line |-> c.blocks[k].begin_line,
                              condition |-> c.blocks[k].condition ]
                    /\ BlocksEmitted(trace, "TRUE", c) = {}
                    /\ \A k \in 1 .. n :
                        \A d \in AllConds(c.blocks[k].nested_conditionals) :
                            /\ BlocksEmitted(trace, "TRUE", d) = {}
                            /\ BlocksEmitted(trace, "FALSE", d) = {}

\* The example of the specification: "#if A" (1), "#else" (3), "#endif" (5),
\* query 5.
C2_Witness ==
    /\ BuildSucceeded /\ Queried
    /\ TargetLine = 5
    /\ Len(conditionals) = 1
    /\ conditionals[1].begin_line = 1
    /\ conditionals[1].end_line = 5
    /\ Len(conditionals[1].blocks) = 2
    /\ conditionals[1].blocks[1].condition = LineIf
    /\ conditionals[1].blocks[2].begin_line = 3
    /\ conditionals[1].blocks[2].condition = LineElse
    /\ Trace = << [ kind |-> "FALSE", line |-> 1, condition |-> LineIf ],
                  [ kind |-> "FALSE", line |-> 3, condition |-> LineElse ] >>

\* C3 (empty results): the trace of a query is empty exactly when no
\* top-level conditional holds the line in its closed range; and when a block
\* is reported TRUE and none of its nested conditionals holds the line in its
\* closed range, that TRUE entry is the last entry of the trace.
C3_EmptyResult ==
    (BuildSucceeded /\ Queried) =>
        LET trace == Trace
        IN  /\ trace = <<>> <=>
                  ~ \E i \in 1 .. Len(conditionals) :
                        /\ conditionals[i].begin_line <= TargetLine
                        /\ TargetLine <= conditionals[i].end_line
            /\ \A blk \in AllBlocks :
                \A i \in Emitted(trace, "TRUE", blk) :
                    (~ \E j \in 1 .. Len(blk.nested_conditionals) :
                          /\ blk.nested_conditionals[j].begin_line <= TargetLine
                          /\ TargetLine <= blk.nested_conditionals[j].end_line)
                        => i = Len(trace)

\* A block that has a nested conditional is reported TRUE for a line outside
\* that nested conditional, and nothing follows the TRUE entry.
C3_Witness ==
    /\ BuildSucceeded /\ Queried
    /\ \E blk \in AllBlocks :
        /\ blk.nested_conditionals # <<>>
        /\ Emitted(Trace, "TRUE", blk) = { Len(Trace) }
        /\ \A j \in 1 .. Len(blk.nested_conditionals) :
               TargetLine > blk.nested_conditionals[j].end_line

(***************************************************************************)
(* Properties of the built forest.                                         *)
(***************************************************************************)
\* C4 (block contiguity): in every conditional of a built forest blocks is
\* not empty, the first block begins at the conditional's begin_line, the
\* last block ends at its end_line, and every block ends where the next one
\* begins.
C4_BlockContiguity ==
    BuildSucceeded =>
        \A c \in AllConds(conditionals) :
            /\ c.blocks # <<>>
            /\ c.blocks[1].begin_line = c.begin_line
            /\ c.blocks[Len(c.blocks)].end_line = c.end_line
            /\ \A k \in 1 .. Len(c.blocks) - 1 :
                   c.blocks[k].end_line = c.blocks[k + 1].begin_line

\* A built forest with an if / elif / else / endif conditional nested in a
\* block of another conditional.
C4_Witness ==
    /\ BuildSucceeded
    /\ \E blk \in AllBlocks :
        \E j \in 1 .. Len(blk.nested_conditionals) :
            LET c == blk.nested_conditionals[j]
            IN  /\ Len(c.blocks) = 3
                /\ c.blocks[2].condition = LineElif
                /\ c.blocks[3].condition = LineElse

\* The number of blocks of a conditional whose half-open range holds a line.
BlocksHolding(c, l) ==
    Cardinality({ k \in 1 .. Len(c.blocks) :
                    c.blocks[k].begin_line <= l /\ l < c.blocks[k].end_line })

\* C5 as stated (partition of the closed range): in a built forest every
\* line from begin_line to end_line of a conditional, both included, lies in
\* the half-open range of exactly one of its blocks.
C5_PartitionClosed ==
    BuildSucceeded =>
        \A c \in AllConds(conditionals) :
            \A l \in c.begin_line .. c.end_line : BlocksHolding(c, l) = 1

\* C5 as amended (partition of the half-open range): in a built forest
\* every line from begin_line to end_line - 1 of a conditional lies in the
\* half-open range of exactly one of its blocks, and its end_line (and every
\* line outside [begin_line, end_line]) lies in none.
C5_PartitionHalfOpen ==
    BuildSucceeded =>
        \A c \in AllConds(conditionals) :
            /\ \A l \in c.begin_line .. c.end_line - 1 : BlocksHolding(c, l) = 1
            /\ BlocksHolding(c, c.end_line) = 0
            /\ \A l \in 0 .. MaxLine + 2 :
                   (l < c.begin_line \/ l > c.end_line) => BlocksHolding(c, l) = 0

\* A built conditional of several blocks, each of them spanning at least two
\* lines.
C5_Witness ==
    /\ BuildSucceeded
    /\ \E c \in AllConds(conditionals) :
        /\ Len(c.blocks) >= 2
        /\ c.end_line - c.begin_line >= 4
        /\ \A k \in 1 .. Len(c.blocks) :
               c.blocks[k].end_line - c.blocks[k].begin_line >= 2

\* C6 (nesting containment): in a built forest every conditional nested in a
\* block begins at or after the block's begin_line and ends before the
\* block's end_line.
C6_NestingContainment ==
    BuildSucceeded =>
        \A blk \in AllBlocks :
            \A j \in 1 .. Len(blk.nested_conditionals) :
                LET n == blk.nested_conditionals[j]
                IN  /\ blk.begin_line <= n.begin_line
                    /\ n.begin_line <= n.end_line
                    /\ n.end_line < blk.end_line

\* A built forest with a conditional nested in an else block, its endif on
\* the line before the directive that ends the block.
C6_Witness ==
    /\ BuildSucceeded
    /\ \E blk \in AllBlocks :
        /\ blk.condition = LineElse
        /\ blk.nested_conditionals # <<>>
        /\ blk.nested_conditionals[1].end_line = blk.end_line - 1

\* C7 (sibling disjointness): in a built forest the conditionals of every
\* sibling sequence (the top level, the nested conditionals of one block)
\* are in increasing source order with disjoint closed ranges, so that no
\* line lies in the closed range of two of them.
C7_SiblingDisjointness ==
    BuildSucceeded =>
        \A s \in SiblingLists :
            /\ \A i \in 1 .. Len(s) : s[i].begin_line <= s[i].end_line
            /\ \A i \in 1 .. Len(s) - 1 : s[i].end_line < s[i + 1].begin_line
            /\ \A l \in 0 .. MaxLine + 2 :
                   Cardinality({ i \in 1 .. Len(s) :
                       s[i].begin_line <= l /\ l <= s[i].end_line }) <= 1

\* A built forest in which one block holds two nested conditionals, the
\* second of them beginning on the line after the first one's end_line.
C7_Witness ==
    /\ BuildSucceeded
    /\ \E blk \in AllBlocks :
        /\ Len(blk.nested_conditionals) = 2
        /\ blk.nested_conditionals[2].begin_line =
               blk.nested_conditionals[1].end_line + 1

(***************************************************************************)
(* Properties of the build pass and of its failures.                       *)
(***************************************************************************)
\* The kinds of the lines printed so far.
Printed == { output[i].kind : i \in 1 .. Len(output) }

\* The program exited on one of the three structural errors.
FailedWith(text) ==
    /\ pc = "exited"
    /\ output # <<>>
    /\ Last(output) = [ kind |-> "ERROR", text |-> text ]

StructuralFailure ==
    \/ FailedWith("Encountered else outside of a conditional")
    \/ FailedWith("Encountered '#endif' with no matching conditional")
    \/ FailedWith("Reached end of file with an active conditional block")

\* C8 (balance): as long as no directive has failed the build, the depth of
\* the stack is the number of if / ifdef / ifndef directives read minus the
\* number of endif directives read.  The build succeeds only if the two
\* numbers are equal and the stack is empty; and once the input is finished,
\* a run in which they differ or the stack is not empty has ended in a
\* structural error, with status -1 and without a forest being queried.
C8_Balance ==
    /\ returned # << -1 >> => Len(stateStack) = opened - ended
    /\ BuildSucceeded => (opened = ended /\ stateStack = <<>>)
    /\ (pc # "build" /\ (opened # ended \/ stateStack # <<>>)) =>
           (StructuralFailure /\ returned = << -1 >> /\ ~Queried)

\* The input ended inside two open conditionals, after a third one was
\* closed: the run ended with the unterminated-conditional error.
C8_Witness ==
    /\ FailedWith("Reached end of file with an active conditional block")
    /\ returned = << -1 >>
    /\ ~streamGood
    /\ Len(stateStack) = 2
    /\ opened = 3
    /\ ended = 1

\* C9 (unmatched directives): an else or elif read while the stack is empty
\* ends the run with the else-outside-of-a-conditional error, and an endif
\* read while the stack is empty ends it with the no-matching-conditional
\* error; the step that reads the directive (the build loop runs while the
\* stream is good) leaves the forest and the stack as they were, and no step
\* follows the exit.
C9_Unmatched ==
    [][ /\ pc # "exited"
        /\ (pc = "build" /\ streamGood /\ stateStack = <<>>
              /\ Directive(currentLine') \in { <<KwElse>>, <<KwElif>> }) =>
                 /\ pc' = "exited"
                 /\ returned' = << -1 >>
                 /\ output' = Append(output,
                        [ kind |-> "ERROR",
                          text |-> "Encountered else outside of a conditional" ])
                 /\ UNCHANGED << conditionals, stateStack, queried >>
        /\ (pc = "build" /\ streamGood /\ stateStack = <<>>
              /\ Directive(currentLine') = <<KwEndif>>) =>
                 /\ pc' = "exited"
                 /\ returned' = << -1 >>
                 /\ output' = Append(output,
                        [ kind |-> "ERROR",
                          text |-> "Encountered '#endif' with no matching conditional" ])
                 /\ UNCHANGED << conditionals, stateStack, queried >>
      ]_vars

\* An elif was read after a conditional had been closed: the run ended with
\* the else error and the forest still holds the closed conditional alone.
C9_Witness ==
    /\ FailedWith("Encountered else outside of a conditional")
    /\ currentLine = LineElif
    /\ stateStack = <<>>
    /\ Len(conditionals) = 1
    /\ conditionals[1].end_line > 0
    /\ Len(conditionals[1].blocks) = 1

\* C10 (no query after a structural failure): a run that printed a
\* structural error has exited with a status that is neither 0 nor 1, has
\* run no query and has printed no header, no trace entry and no blank line;
\* and whenever the query loop is reached or a query has run, the input is
\* exhausted, the stack is empty and no error was printed.
C10_NoQueryAfterFailure ==
    /\ "ERROR" \in Printed =>
           /\ StructuralFailure
           /\ Len(returned) = 1
           /\ returned[1] \notin { 0, 1 }
           /\ ~Queried
           /\ Printed = { "ERROR" }
    /\ (pc = "query" \/ Queried \/ Printed \cap { "HEADER", "TRUE", "FALSE", "BLANK" } # {}) =>
           /\ stateStack = <<>>
           /\ ~streamGood
           /\ opened = ended
           /\ "ERROR" \notin Printed

\* An endif was read while the stack was empty, after a conditional had been
\* closed in which a query would have found blocks: the run ended there.
C10_Witness ==
    /\ FailedWith("Encountered '#endif' with no matching conditional")
    /\ returned = << -1 >>
    /\ conditionals # <<>>
    /\ ~Queried
    /\ Len(output) = 1


(***************************************************************************)
(* C11  Queries are read-only and deterministic: no step of the query loop *)
(* changes the forest (any begin_line, end_line, condition text, block     *)
(* list or nested list) or the stack, and two queries of the same target   *)
(* line print the same trace, whatever was queried before or in between.   *)
(***************************************************************************)
\* The positions of the headers of the reports in output.
Headers == { i \in DOMAIN output : output[i].kind = "HEADER" }

NthHeader(k) ==
    CHOOSE i \in Headers : Cardinality({ j \in Headers : j <= i }) = k

\* What the k-th query printed after its header.
TraceOf(k) ==
    SubSeq(output, NthHeader(k) + 1,
           IF k < Len(queried) THEN NthHeader(k + 1) - 1 ELSE Len(output))

SameLineSameTrace ==
    \A i, j \in DOMAIN queried :
        queried[i] = queried[j] => TraceOf(i) = TraceOf(j)

C11_ReadOnlyQueries ==
    /\ []SameLineSameTrace
    /\ [][ pc = "query" =>
             /\ conditionals' = conditionals
             /\ stateStack' = stateStack ]_vars

\* Reached: a line inside a block was queried, then another line with a
\* different trace, then the first line again.
C11_Witness ==
    /\ Len(queried) = 3
    /\ queried[1] = queried[3]
    /\ \E e \in DOMAIN TraceOf(1) : TraceOf(1)[e].kind = "TRUE"
    /\ TraceOf(2) # TraceOf(1)
    /\ TraceOf(3) = TraceOf(1)


(***************************************************************************)
(* C12  Line-number accounting under continuation: while the file is read, *)
(* the line counter is 1 plus the number of physical lines taken by the    *)
(* logical lines read so far (a logical line that merges k physical lines  *)
(* advances it by k, whatever kind of line it is), and the begin_line and  *)
(* end_line a directive records are the number of the physical line at     *)
(* which its logical line starts.                                          *)
(***************************************************************************)
C12_LineAccounting ==
    /\ [](pc = "build" /\ streamGood => currentLineNumber = physRead + 1)
    /\ [][ pc = "build" /\ streamGood /\ pc' = "build" =>
             LET start == physRead + 1
             IN  /\ opened' = opened + 1 =>
                        LET c == GetCond(conditionals', Last(stateStack'))
                        IN  /\ c.begin_line = start
                            /\ c.blocks[1].begin_line = start
                 /\ ended' = ended + 1 =>
                        LET c == GetCond(conditionals', Last(stateStack))
                        IN  /\ c.end_line = start
                            /\ Last(c.blocks).end_line = start
                 /\ (opened' = opened /\ ended' = ended
                                      /\ conditionals' # conditionals) =>
                        LET c == GetCond(conditionals', Last(stateStack))
                            n == Len(c.blocks)
                        IN  /\ c.blocks[n].begin_line = start
                            /\ c.blocks[n - 1].end_line = start ]_vars

\* Reached: after a blank line, a directive that merges two physical lines
\* starts at line 2, and the '#endif' that follows it is at line 4.
C12_Witness ==
    /\ Len(conditionals) = 1
    /\ conditionals[1].begin_line = 2
    /\ conditionals[1].end_line = 4
    /\ conditionals[1].blocks[1].condition = Merged(<< LineIfdefCont, LineCode >>)
    /\ conditionals[1].blocks[1].end_line = 4

(***************************************************************************)
(* The classification of a logical line, stated on its text.               *)
(***************************************************************************)
Blanks == { " ", "\t", "<VT>" }

Letters ==
    { "a", "b", "c", "d", "e", "f", "g", "h", "i", "j", "k", "l", "m",
      "n", "o", "p", "q", "r", "s", "t", "u", "v", "w", "x", "y", "z",
      "A", "B", "C", "D", "E", "F", "G", "H", "I", "J", "K", "L", "M",
      "N", "O", "P", "Q", "R", "S", "T", "U", "V", "W", "X", "Y", "Z" }

\* p is the first position of text, from position from, that holds no
\* space, tab or vertical tab.
FirstNonBlank(text, from, p) ==
    /\ p \in from .. Len(text)
    /\ text[p] \notin Blanks
    /\ \A i \in from .. (p - 1) : text[i] \in Blanks

\* The first non-blank character of text is '#', and kw is the maximal run
\* of letters that starts at the first non-blank character after it.
HasKeyword(text, kw) ==
    \E p \in DOMAIN text :
        /\ text[p] = "#"
        /\ FirstNonBlank(text, 1, p)
        /\ \E q \in (p + 1) .. (Len(text) - Len(kw) + 1) :
               /\ FirstNonBlank(text, p + 1, q)
               /\ \A i \in 1 .. Len(kw) : text[q + i - 1] = kw[i]
               /\ q + Len(kw) > Len(text) \/ text[q + Len(kw)] \notin Letters

Class(text) ==
    IF \E kw \in { <<"i", "f">>, <<"i", "f", "d", "e", "f">>,
                   <<"i", "f", "n", "d", "e", "f">> } : HasKeyword(text, kw)
    THEN "open"
    ELSE IF \E kw \in { <<"e", "l", "s", "e">>, <<"e", "l", "i", "f">> } :
                HasKeyword(text, kw)
    THEN "else"
    ELSE IF HasKeyword(text, <<"e", "n", "d", "i", "f">>)
    THEN "endif"
    ELSE "ignored"

HasPrefix(text, pre) ==
    Len(text) >= Len(pre) /\ SubSeq(text, 1, Len(pre)) = pre

\* What a step of the build loop did, by the branch of the dispatch.
TookOpen == opened' = opened + 1

TookEndif == ended' = ended + 1

TookElse ==
    /\ opened' = opened
    /\ ended' = ended
    /\ IF stateStack = <<>>
       THEN pc' = "exited" /\ conditionals' = conditionals
       ELSE /\ stateStack' = stateStack
            /\ Len(GetCond(conditionals', Last(stateStack)).blocks)
                 = Len(GetCond(conditionals, Last(stateStack)).blocks) + 1

TookNone ==
    /\ opened' = opened
    /\ ended' = ended
    /\ conditionals' = conditionals
    /\ stateStack' = stateStack
    /\ pc' = "build"
    /\ output' = output
    /\ returned' = returned

(***************************************************************************)
(* C13  Ignored lines change nothing: a step that reads a logical line     *)
(* that is no directive, or whose keyword is none of if, ifdef, ifndef,    *)
(* elif, else and endif (a blank line, code, '#define', a bare '#', '#IF', *)
(* '#elseif', '#ifdefX'), leaves the stack, the top-level sequence and     *)
(* every conditional and block unchanged and raises no error; only the     *)
(* line counter advances.                                                  *)
(***************************************************************************)
C13_IgnoredLines ==
    [][ pc = "build" /\ streamGood =>
          LET text == currentLine'
          IN  ( \/ Class(text) = "ignored"
                \/ text \in { <<>>, LineCode, TextHash, TextUpperIf,
                              TextElseif, TextIfdefX }
                \/ HasPrefix(text, TextDefineCont) )
              => /\ TookNone
                 /\ currentLineNumber' > currentLineNumber ]_vars

\* Reached: inside an open conditional, '#elseif' was read at line 2: the
\* conditional still has its one block and the counter is at line 3.
C13_Witness ==
    /\ pc = "build"
    /\ currentLine = TextElseif
    /\ currentLineNumber = 3
    /\ Len(stateStack) = 1
    /\ Len(conditionals[1].blocks) = 1
    /\ conditionals[1].end_line = 0

(***************************************************************************)
(* C16  Directive classification: a step of the build loop takes the       *)
(* if/ifdef/ifndef, the else/elif or the endif branch exactly when the     *)
(* first character of the logical line other than space, tab and vertical  *)
(* tab is '#' and the maximal run of letters after the '#' and the blanks  *)
(* that follow it is, in full and case-sensitively, one of those keywords. *)
(* So '#if(X)' and '#  ifdef X' open a conditional, and '#IF', '#elseif',  *)
(* '#ifdefX' and '#' alone are ignored.  The merged logical line is what   *)
(* is classified: a physical line that begins with '#' and continues a     *)
(* backslash-terminated line is not classified on its own.                 *)
(***************************************************************************)
C16_Classification ==
    [][ pc = "build" /\ streamGood =>
          LET text == currentLine'
              class == Class(text)
          IN  /\ class = "open" => TookOpen
              /\ class = "else" => TookElse
              /\ class = "endif" => TookEndif
              /\ class = "ignored" => TookNone
              /\ text \in { TextIfParen, TextIfdefSpaced } => TookOpen
              /\ text \in { TextUpperIf, TextElseif, TextIfdefX, TextHash }
                    => TookNone
              /\ HasPrefix(text, TextDefineCont) => TookNone
              /\ HasPrefix(text, LineIfdefCont) => TookOpen ]_vars

\* Reached: '#if(X)' opened a conditional at line 1, and the logical line
\* '#define X \' + '#endif' was read without closing it.
C16_Witness ==
    /\ pc = "build"
    /\ Len(conditionals) = 1
    /\ conditionals[1].blocks[1].condition = TextIfParen
    /\ currentLine = Merged(<< TextDefineCont, LineEndif >>)
    /\ Len(stateStack) = 1
    /\ ended = 0


(***************************************************************************)
(* C14  Help.  As claimed: whenever '--help' is among the arguments,       *)
(* wherever it stands and whatever stands with it, no file is opened and   *)
(* the program exits with status 0 having printed the usage text only.     *)
(***************************************************************************)
HelpGiven == \E i \in DOMAIN cli.argv : cli.argv[i] = ArgHelp

C14_HelpAnywhere ==
    HelpGiven =>
        /\ cli.stream = "none"
        /\ pc # "build"
        /\ pc = "exited" => returned = << 0 >> /\ output = << Usage >>

(***************************************************************************)
(* C14, amended: whenever the argument loop reaches '--help' (no argument  *)
(* before it was rejected, and it is not the path that follows '--file'),  *)
(* the program prints the usage text only and exits with status 0, and no  *)
(* file has been or is opened.  The program exits with status 0 from the   *)
(* argument loop in no other way.                                          *)
(***************************************************************************)
C14_HelpReached ==
    /\ [][ AtArgument(ArgHelp) =>
             /\ pc' = "exited"
             /\ returned' = << 0 >>
             /\ output' = << Usage >>
             /\ cli'.stream = "none" ]_vars
    /\ [](returned = << 0 >> =>
             /\ cli.begin \in DOMAIN cli.argv
             /\ cli.argv[cli.begin] = ArgHelp
             /\ cli.stream = "none")

\* Reached: '--help' was reached after a path and line numbers were taken,
\* and the program exited with status 0.
C14_Witness ==
    /\ pc = "exited"
    /\ returned = << 0 >>
    /\ output = << Usage >>
    /\ cli.begin > 2
    /\ cli.argv[cli.begin] = ArgHelp
    /\ cli.filePath # <<>> \/ cli.lines # <<>>


(***************************************************************************)
(* C15  Nesting attaches to the branch open at that moment: a step that    *)
(* reads if/ifdef/ifndef at line ln creates a conditional with begin_line  *)
(* ln and one block with begin_line ln and the directive's text; with an   *)
(* empty stack it is appended to the top-level sequence, otherwise to the  *)
(* nested list of the last block of the conditional on top of the stack;   *)
(* it is pushed on the stack.  A later elif/else adds a block with an      *)
(* empty nested list and leaves the nested lists of the blocks before it   *)
(* as they are, so a conditional opened after '#else' is nested in the     *)
(* else block and never in the if block.                                   *)
(***************************************************************************)
C15_NestingAttachment ==
    [][ pc = "build" /\ streamGood /\ pc' = "build" =>
          /\ opened' = opened + 1 =>
               LET ln    == currentLineNumber
                   fresh == [ begin_line |-> ln, end_line |-> 0,
                              blocks |-> << [ begin_line |-> ln,
                                              end_line |-> 0,
                                              condition |-> currentLine',
                                              nested_conditionals |-> <<>> ] >> ]
               IN  IF stateStack = <<>>
                   THEN /\ conditionals' = Append(conditionals, fresh)
                        /\ stateStack' = << << Len(conditionals) + 1 >> >>
                   ELSE LET top    == Last(stateStack)
                            parent == GetCond(conditionals, top)
                            b      == Len(parent.blocks)
                            n      == Len(parent.blocks[b].nested_conditionals)
                        IN  /\ GetCond(conditionals', top) =
                                 [parent EXCEPT
                                    !.blocks[b].nested_conditionals =
                                        Append(@, fresh)]
                            /\ Len(conditionals') = Len(conditionals)
                            /\ stateStack' =
                                 Append(stateStack, top \o << b, n + 1 >>)
          /\ (opened' = opened /\ ended' = ended
                               /\ conditionals' # conditionals) =>
               LET top    == Last(stateStack)
                   before == GetCond(conditionals, top).blocks
                   after  == GetCond(conditionals', top).blocks
               IN  /\ Len(after) = Len(before) + 1
                   /\ Last(after).nested_conditionals = <<>>
                   /\ \A k \in DOMAIN before :
                          after[k].nested_conditionals =
                              before[k].nested_conditionals ]_vars

\* Reached: a conditional was opened and closed inside the else block of a
\* conditional that was then given a third block: it is in the second
\* block, and the first and third blocks have no nested conditional.
C15_Witness ==
    /\ pc = "build"
    /\ Len(conditionals) = 1
    /\ Len(conditionals[1].blocks) = 3
    /\ conditionals[1].blocks[1].nested_conditionals = <<>>
    /\ Len(conditionals[1].blocks[2].nested_conditionals) = 1
    /\ conditionals[1].blocks[3].nested_conditionals = <<>>
    /\ stateStack = << <<1>> >>

(***************************************************************************)
(* C17  Shape of the stack: at every point of the build pass the stack is   *)
(* the chain of open                                                       *)
(* conditionals.  Its first element is the last element of the top-level   *)
(* sequence, each further element is the last element of the nested list   *)
(* of the last block of the element before it, no conditional on the stack *)
(* has received its end_line, and every conditional that is not on the     *)
(* stack has been closed by its '#endif'.                                  *)
(***************************************************************************)
\* The conditionals the stack points to.
OnStack == { GetCond(conditionals, stateStack[i]) : i \in DOMAIN stateStack }

C17_StackShape ==
    pc = "build" =>
        /\ stateStack # <<>> => stateStack[1] = << Len(conditionals) >>
        /\ \A i \in 1 .. (Len(stateStack) - 1) :
              LET c == GetCond(conditionals, stateStack[i])
                  b == Len(c.blocks)
              IN  stateStack[i + 1] =
                      stateStack[i]
                          \o << b, Len(c.blocks[b].nested_conditionals) >>
        /\ \A c \in OnStack : c.end_line = 0
        /\ \A c \in AllConds(conditionals) \ OnStack :
              /\ c.end_line > c.begin_line
              /\ Last(c.blocks).end_line = c.end_line

\* Reached: during the build pass two conditionals are open, one inside the
\* other, after an earlier top-level conditional was closed.
C17_Witness ==
    /\ pc = "build"
    /\ Len(conditionals) = 2
    /\ conditionals[1].end_line # 0
    /\ Len(stateStack) = 2
    /\ stateStack[2] = << 2, 1, 1 >>

(***************************************************************************)
(* C18  No unset bound is read: during the build pass every conditional    *)
(* and block has its begin_line from the moment it is created, and         *)
(* whenever the program is in the query loop every conditional and every   *)
(* block, at every depth, has been given its end_line, so process_line     *)
(* compares the target line with assigned bounds only.  An end_line that   *)
(* was never assigned is 0.                                                *)
(***************************************************************************)
C18_BoundsAssigned ==
    /\ pc = "build" =>
          \A c \in AllConds(conditionals) :
              /\ c.begin_line # 0
              /\ \A b \in DOMAIN c.blocks : c.blocks[b].begin_line # 0
    /\ pc = "query" =>
          \A c \in AllConds(conditionals) :
              /\ c.begin_line # 0
              /\ c.end_line # 0
              /\ \A b \in DOMAIN c.blocks :
                     /\ c.blocks[b].begin_line # 0
                     /\ c.blocks[b].end_line # 0

\* Reached: the query loop runs on a forest with a conditional of two
\* blocks nested in another conditional.
C18_Witness ==
    /\ pc = "query"
    /\ Len(conditionals) = 1
    /\ Len(conditionals[1].blocks[1].nested_conditionals) = 1
    /\ Len(conditionals[1].blocks[1].nested_conditionals[1].blocks) = 2

(***************************************************************************)
(* C19  Trace order: the line numbers of the entries of a trace strictly   *)
(* increase in the order of emission and none exceeds the target line; the *)
(* entries of a conditional precede the entries of every conditional       *)
(* nested in it; and once all the blocks of a conditional were emitted as  *)
(* FALSE, no further entry follows.                                        *)
(***************************************************************************)
\* The positions of a trace that report a block of a conditional.
EntriesOf(trace, c) ==
    { i \in DOMAIN trace :
        \E b \in DOMAIN c.blocks : trace[i].line = c.blocks[b].begin_line }

\* The conditionals nested in a conditional, at any depth.
NestedIn(c) ==
    UNION { AllConds(c.blocks[b].nested_conditionals) : b \in DOMAIN c.blocks }

C19_TraceOrder ==
    Queried =>
        LET trace == Trace
        IN  /\ \A i \in DOMAIN trace : trace[i].line <= TargetLine
            /\ \A i \in 1 .. (Len(trace) - 1) :
                   trace[i].line < trace[i + 1].line
            /\ \A c \in AllConds(conditionals) :
                   LET entries == EntriesOf(trace, c)
                   IN  entries # {} =>
                         /\ \A d \in NestedIn(c) :
                                \A j \in EntriesOf(trace, d) :
                                    \A i \in entries : i < j
                         /\ BlocksEmitted(trace, "FALSE", c) = DOMAIN c.blocks
                              => /\ trace[Len(trace)].kind = "FALSE"
                                 /\ trace[Len(trace)].line =
                                        Last(c.blocks).begin_line

\* Reached: the trace is a FALSE entry, a TRUE entry of the same
\* conditional, and then the two FALSE entries of a conditional nested in
\* that block, queried at its '#endif'.
C19_Witness ==
    /\ Queried
    /\ Len(Trace) = 4
    /\ Trace[1].kind = "FALSE"
    /\ Trace[2].kind = "TRUE"
    /\ Trace[3].kind = "FALSE"
    /\ Trace[4].kind = "FALSE"
    /\ Len(conditionals[1].blocks[2].nested_conditionals) = 1

(***************************************************************************)
(* C20  Completeness of the TRUE entries: the blocks emitted as TRUE are   *)
(* exactly the blocks of the forest, at any depth, with                    *)
(* begin_line <= L < end_line, so the number of TRUE entries is the        *)
(* nesting depth of L; and a block is emitted as FALSE exactly when it is  *)
(* a block of a visited conditional (begin_line <= L <= end_line) and its  *)
(* end_line <= L.                                                          *)
(***************************************************************************)
\* The number of conditionals a line is inside of.
NestingDepthIn(conds, l) ==
    Cardinality({ c \in conds : c.begin_line <= l /\ l < c.end_line })

NestingDepth(l) == NestingDepthIn(AllConds(conditionals), l)

\* The line numbers of the entries of a kind.
LinesEmitted(trace, kind) ==
    { trace[i].line : i \in { j \in DOMAIN trace : trace[j].kind = kind } }

C20_TrueEntries ==
    Queried =>
        LET trace == Trace
            l     == TargetLine
            conds == AllConds(conditionals)
            true  == LinesEmitted(trace, "TRUE")
            false == LinesEmitted(trace, "FALSE")
        IN  /\ \A c \in conds : \A b \in DOMAIN c.blocks :
                   LET blk == c.blocks[b]
                   IN  /\ blk.begin_line \in true
                           <=> (blk.begin_line <= l /\ l < blk.end_line)
                       /\ blk.begin_line \in false
                           <=> /\ c.begin_line <= l
                               /\ l <= c.end_line
                               /\ blk.end_line <= l
            /\ Cardinality({ i \in DOMAIN trace : trace[i].kind = "TRUE" })
                   = NestingDepthIn(conds, l)

\* Reached: the target line is at depth 2, inside the second block of a
\* conditional nested in another one: two TRUE entries and one FALSE entry.
C20_Witness ==
    /\ Queried
    /\ NestingDepth(TargetLine) = 2
    /\ Len(Trace) = 3
    /\ Trace[1].kind = "TRUE"
    /\ Trace[2].kind = "FALSE"
    /\ Trace[3].kind = "TRUE"

=============================================================================
